---- MODULE Spec2Model ----
(***************************************************************************)
(* A model of the timetable engine of src/main.py: the time-range overlap  *)
(* predicate, the exam-conflict predicate, the window check, the validator *)
(* of one combination (one Schedule per Class) and the exhaustive          *)
(* enumerator generate_all_valid_choices, and of the cursor of the viewer   *)
(* that main() serves over the list of combinations (update_schedule).     *)
(*                                                                         *)
(* Python values are modelled as follows.                                  *)
(*   Hour        [hours, minutes]                                          *)
(*   Hour_Range  [start, end]                                              *)
(*   Exam        [kind, id, hours]; an absent exam (Python None) is None   *)
(*   Schedule    [days, hours, exam]; days is the int bit mask of the      *)
(*               source (bit i set: weekday i is active)                   *)
(*   Class       [name, options, exam]                                     *)
(* The fields group, in_person, available and associated_class are read    *)
(* only by the rendering code and are left out.  A Python call either      *)
(* returns a value, Returned(v), or raises, Raised("AttributeError").      *)
(* Python lists are sequences, so list index k is sequence index k + 1.    *)
(* A returned combination holds references to Schedule objects of the      *)
(* catalog; a reference is kept as the option's index in its class.        *)
(***************************************************************************)
EXTENDS Integers, Sequences, FiniteSets, TLC

VARIABLES
    classes,              \* main: the catalog handed to generate_all_valid_choices
    accepted,             \* the accepted daily window
    valid_combinations,   \* main: outcome of the latest generate_all_valid_choices call
    earlier_combinations, \* outcome of the call before the latest one
    schedules,            \* the combination handed to is_schedule_arrangement_valid
    verdict,              \* outcome of is_schedule_arrangement_valid(schedules, accepted)
    range1, range2,       \* arguments of do_hours_overlap
    exam1, exam2,         \* arguments of do_exams_overlap
    answer,               \* outcome of the predicate applied to the arguments
    idx,                  \* main: the data of the current-index store (the cursor)
    triggered_id          \* the button that triggered the latest update_schedule call

vars == <<classes, accepted, valid_combinations, earlier_combinations,
          schedules, verdict, range1, range2, exam1, exam2, answer, idx, triggered_id>>

-----------------------------------------------------------------------------
(* Outcomes of a call *)

NotCalled == [kind |-> "not called"]

Returned(v) == [kind |-> "return", value |-> v]

Raised(e) == [kind |-> "raise", exception |-> e]

None == [kind |-> "None"]

-----------------------------------------------------------------------------
(* Bounds of the model *)

\* do_hours_overlap is explored over hours 0..MaxHour and minutes 0..MaxMinute
MaxHour == 2

MaxMinute == 2

\* exam identifiers 1..MaxExamId
MaxExamId == 2

\* a combination handed to the validator holds at most MaxChoice schedules
MaxChoice == 3

\* a catalog holds at most MaxClasses classes
MaxClasses == 2

-----------------------------------------------------------------------------
(* Program constants *)

\* Day.Count: the weekdays are the bits 0..Day_Count - 1 of a days mask
Day_Count == 5

-----------------------------------------------------------------------------
(* Time primitives *)

Hour(h, m) == [hours |-> h, minutes |-> m]

Hour_Range(s, e) == [start |-> s, end |-> e]

do_hours_overlap_touching(r1, r2) ==
    ~ (   (r1.end.hours < r2.start.hours)
       \/ (r1.end.hours = r2.start.hours /\ r1.end.minutes < r2.start.minutes)
       \/ (r1.start.hours > r2.end.hours)
       \/ (r1.start.hours = r2.end.hours /\ r1.start.minutes > r2.end.minutes))

do_hours_overlap(r1, r2) ==
    ~ (   (r1.end.hours < r2.start.hours)
       \/ (r1.end.hours = r2.start.hours /\ r1.end.minutes <= r2.start.minutes)
       \/ (r1.start.hours > r2.end.hours)
       \/ (r1.start.hours = r2.end.hours /\ r1.start.minutes >= r2.end.minutes))

check_hours_overlap(ranges) ==
    IF Len(ranges) <= 1
    THEN FALSE
    ELSE \E i \in 1..Len(ranges) : \E j \in (i + 1)..Len(ranges) :
            do_hours_overlap(ranges[i], ranges[j])

-----------------------------------------------------------------------------
(* The specification of do_hours_overlap over all small ranges *)

SmallHours == {Hour(h, m) : h \in 0..MaxHour, m \in 0..MaxMinute}

SmallRanges == {Hour_Range(s, e) : s \in SmallHours, e \in SmallHours}

\* idx = 0 and no callback has run
ViewerAtStart ==
    /\ idx = 0
    /\ triggered_id = ""

Idle ==
    /\ ViewerAtStart
    /\ classes = << >>
    /\ valid_combinations = NotCalled
    /\ earlier_combinations = NotCalled
    /\ schedules = << >>
    /\ verdict = NotCalled

InitHours ==
    /\ Idle
    /\ accepted = None
    /\ range1 \in SmallRanges
    /\ range2 \in SmallRanges
    /\ exam1 = None
    /\ exam2 = None
    /\ answer = NotCalled

CompareHours ==
    /\ answer = NotCalled
    /\ answer' = Returned(do_hours_overlap(range1, range2))
    /\ UNCHANGED <<classes, accepted, valid_combinations, earlier_combinations,
                   schedules, verdict, range1, range2, exam1, exam2, idx, triggered_id>>

SpecHours == InitHours /\ [][CompareHours]_vars

-----------------------------------------------------------------------------
(* Exams *)

Exam(id, hours) == [kind |-> "Exam", id |-> id, hours |-> hours]

\* exam1.id and exam2.id are read before anything else: on None the read
\* raises AttributeError
do_exams_overlap_sparing_identical(e1, e2) ==
    IF e1 = None \/ e2 = None
    THEN Raised("AttributeError")
    ELSE IF e1.id # e2.id \/ e1 = e2
         THEN Returned(FALSE)
         ELSE Returned(do_hours_overlap(e1.hours, e2.hours))

do_exams_overlap(e1, e2) ==
    IF e1 = None \/ e2 = None
    THEN Raised("AttributeError")
    ELSE IF e1.id # e2.id
         THEN Returned(FALSE)
         ELSE Returned(do_hours_overlap(e1.hours, e2.hours))

\* the two nested loops of check_exams_overlap from the pair (i, j) on: the
\* first pair that raises or conflicts ends the scan
RECURSIVE scan_exam_pairs(_, _, _)
scan_exam_pairs(exams, i, j) ==
    IF i > Len(exams)
    THEN Returned(FALSE)
    ELSE IF j > Len(exams)
         THEN scan_exam_pairs(exams, i + 1, i + 2)
         ELSE LET r == do_exams_overlap(exams[i], exams[j])
              IN  IF r.kind = "raise"
                  THEN r
                  ELSE IF r.value
                       THEN Returned(TRUE)
                       ELSE scan_exam_pairs(exams, i, j + 1)

check_exams_overlap(exams) ==
    IF Len(exams) <= 1
    THEN Returned(FALSE)
    ELSE scan_exam_pairs(exams, 1, 2)

-----------------------------------------------------------------------------
(* Schedules and the validator of one combination *)

Schedule(days, hours, exam) == [days |-> days, hours |-> hours, exam |-> exam]

is_schedule_valid(schedule, window) ==
    LET schedule_start == schedule.hours.start.hours * 60 + schedule.hours.start.minutes
        schedule_end   == schedule.hours.end.hours * 60 + schedule.hours.end.minutes
        accepted_start == window.start.hours * 60 + window.start.minutes
        accepted_end   == window.end.hours * 60 + window.end.minutes
    IN  (schedule_start >= accepted_start) /\ (schedule_end <= accepted_end)

\* schedule.days & (1 << i)
HasDay(days, i) == (days \div (2 ^ i)) % 2 = 1

\* day_hours after the loop over the schedules: for each day index, the
\* hours of the schedules active that day, in combination order
day_hours(combination) ==
    [i \in 0..(Day_Count - 1) |->
        LET OnDay(s) == HasDay(s.days, i)
            active == SelectSeq(combination, OnDay)
        IN  [k \in 1..Len(active) |-> active[k].hours]]

is_schedule_arrangement_valid(combination, window) ==
    IF Len(combination) <= 1
    THEN Returned(TRUE)
    ELSE LET exams == [k \in 1..Len(combination) |-> combination[k].exam]
             conflict == check_exams_overlap(exams)
         IN  IF conflict.kind = "raise"
             THEN conflict
             ELSE IF conflict.value
                  THEN Returned(FALSE)
                  ELSE IF \E k \in 1..Len(combination) :
                             ~ is_schedule_valid(combination[k], window)
                       THEN Returned(FALSE)
                       ELSE IF \E i \in 0..(Day_Count - 1) :
                                  check_hours_overlap(day_hours(combination)[i])
                            THEN Returned(FALSE)
                            ELSE Returned(TRUE)

-----------------------------------------------------------------------------
(* The inputs of the validator and of the exam predicate *)

\* the window of main() and a narrower one
Windows ==
    { Hour_Range(Hour(9, 0), Hour(16, 30)), Hour_Range(Hour(9, 30), Hour(16, 30)) }

\* Monday, Friday
DayMasks == {1, 16}

\* 9:00-10:00 and 9:30-10:30 overlap, 9:00-10:00 and 10:00-11:00 touch
ClassHours ==
    { Hour_Range(Hour(9, 0), Hour(10, 0)),
      Hour_Range(Hour(9, 30), Hour(10, 30)),
      Hour_Range(Hour(10, 0), Hour(11, 0)) }

ExamTimes == {Hour(14, 0), Hour(15, 30), Hour(16, 0)}

ExamRanges == {Hour_Range(s, e) : s \in ExamTimes, e \in ExamTimes}

Exams == {Exam(id, r) : id \in 1..MaxExamId, r \in ExamRanges}

\* the exams of the schedules of a combination: absent, a two-hour exam under
\* two identifiers, and an exam of no duration
ScheduleExams ==
    { None,
      Exam(1, Hour_Range(Hour(14, 0), Hour(16, 0))),
      Exam(2, Hour_Range(Hour(14, 0), Hour(16, 0))),
      Exam(1, Hour_Range(Hour(14, 0), Hour(14, 0))) }

Schedules == {Schedule(d, h, e) : d \in DayMasks, h \in ClassHours, e \in ScheduleExams}

Combinations == UNION {[1..n -> Schedules] : n \in 0..MaxChoice}

NoPredicateCall ==
    /\ range1 = None
    /\ range2 = None

InitValidator ==
    /\ ViewerAtStart
    /\ classes = << >>
    /\ valid_combinations = NotCalled
    /\ earlier_combinations = NotCalled
    /\ NoPredicateCall
    /\ exam1 = None
    /\ exam2 = None
    /\ answer = NotCalled
    /\ schedules \in Combinations
    /\ accepted \in Windows
    /\ verdict = NotCalled

Validate ==
    /\ verdict = NotCalled
    /\ verdict' = is_schedule_arrangement_valid(schedules, accepted)
    /\ UNCHANGED <<classes, accepted, valid_combinations, earlier_combinations,
                   schedules, range1, range2, exam1, exam2, answer, idx, triggered_id>>

SpecValidator == InitValidator /\ [][Validate]_vars

InitExams ==
    /\ Idle
    /\ NoPredicateCall
    /\ accepted = None
    /\ exam1 \in Exams \cup {None}
    /\ exam2 \in Exams \cup {None}
    /\ answer = NotCalled

CompareExams ==
    /\ answer = NotCalled
    /\ schedules = << >>
    /\ answer' = do_exams_overlap(exam1, exam2)
    /\ UNCHANGED <<classes, accepted, valid_combinations, earlier_combinations,
                   schedules, verdict, range1, range2, exam1, exam2, idx, triggered_id>>

\* the exam predicate on a pair of exams, or the validator on a combination
SpecExams == (InitExams \/ InitValidator) /\ [][CompareExams \/ Validate]_vars

-----------------------------------------------------------------------------
(* The exhaustive enumerator *)

\* range(n); list index k is sequence index k + 1
range(n) == [k \in 1..n |-> k]

\* itertools.product(*ranges) with the first index changing fastest
RECURSIVE product_first_fastest(_)
product_first_fastest(ranges) ==
    IF ranges = << >>
    THEN << << >> >>
    ELSE LET first == Head(ranges)
             rest  == product_first_fastest(Tail(ranges))
             n     == Len(first)
         IN  [k \in 1..(n * Len(rest)) |->
                 <<first[((k - 1) % n) + 1]>> \o rest[((k - 1) \div n) + 1]]

\* itertools.product(*ranges): the tuples in order, the last index changing
\* fastest; one empty tuple for no ranges, no tuple when some range is empty
RECURSIVE product(_)
product(ranges) ==
    IF ranges = << >>
    THEN << << >> >>
    ELSE LET first == Head(ranges)
             rest  == product(Tail(ranges))
             n     == Len(rest)
         IN  [k \in 1..(Len(first) * n) |->
                 <<first[((k - 1) \div n) + 1]>> \o rest[((k - 1) % n) + 1]]

\* The Schedule objects of a choice are references into the catalog: the
\* choice for option_indices holds, at position c, a reference to
\* catalog[c].options[option_indices[c]], kept here as the index itself.
\* Choice gives the objects referred to.
Choice(catalog, option_indices) ==
    [c \in 1..Len(option_indices) |-> catalog[c].options[option_indices[c]]]

\* the loop over cartesian_product from its k-th tuple on, valid_choices being
\* the list collected so far; an exception of the validator leaves the call
RECURSIVE collect_valid_choices(_, _, _, _, _)
collect_valid_choices(catalog, window, cartesian_product, k, valid_choices) ==
    IF k > Len(cartesian_product)
    THEN Returned(valid_choices)
    ELSE LET option_indices == cartesian_product[k]
             valid == is_schedule_arrangement_valid(Choice(catalog, option_indices), window)
         IN  IF valid.kind = "raise"
             THEN valid
             ELSE collect_valid_choices(catalog, window, cartesian_product, k + 1,
                      IF valid.value
                      THEN Append(valid_choices, option_indices)
                      ELSE valid_choices)

HasOptions(c) == c.options # << >>

generate_all_valid_choices_skipping_empty(catalog, window) ==
    LET offered == SelectSeq(catalog, HasOptions)
        ranges  == [c \in 1..Len(offered) |-> range(Len(offered[c].options))]
    IN  collect_valid_choices(offered, window, product(ranges), 1, << >>)

\* a call that answers a catalog of no classes with no combination
generate_all_valid_choices_none_for_no_classes(catalog, window) ==
    IF catalog = << >>
    THEN Returned(<< >>)
    ELSE collect_valid_choices(catalog, window,
             product([c \in 1..Len(catalog) |-> range(Len(catalog[c].options))]),
             1, << >>)

generate_all_valid_choices(catalog, window) ==
    LET ranges == [c \in 1..Len(catalog) |-> range(Len(catalog[c].options))]
        cartesian_product == product(ranges)
    IN  collect_valid_choices(catalog, window, cartesian_product, 1, << >>)

-----------------------------------------------------------------------------
(* The catalog *)

\* an option line of the catalog file: days, hours and the exam written on
\* the line itself, None when the line has none
OptionLine(days, hours, own) == [days |-> days, hours |-> hours, own |-> own]

\* the exam of a parsed option: its own, else its class's
parse_schedule_exam(own, class_exam) == IF own # None THEN own ELSE class_exam

Class(name, options, exam) == [name |-> name, options |-> options, exam |-> exam]

\* parse_title followed by parse_schedule for each option line of the class
parse_class(name, class_exam, lines) ==
    Class(name,
          [k \in 1..Len(lines) |->
              Schedule(lines[k].days, lines[k].hours,
                       parse_schedule_exam(lines[k].own, class_exam))],
          class_exam)

TwoHourExam(id) == Exam(id, Hour_Range(Hour(14, 0), Hour(16, 0)))

\* Monday 9:00-10:00; Monday and Friday 9:30-10:30; Friday 10:30-11:30 with
\* an exam of its own
OptionLines ==
    { OptionLine(1, Hour_Range(Hour(9, 0), Hour(10, 0)), None),
      OptionLine(17, Hour_Range(Hour(9, 30), Hour(10, 30)), None),
      OptionLine(16, Hour_Range(Hour(10, 30), Hour(11, 30)), TwoHourExam(1)) }

\* the exam of a class title: none, or a two-hour exam
ClassExams == {None} \cup {TwoHourExam(id) : id \in 1..MaxExamId}

\* a class offers no, one or two options
OptionCounts == 0..2

ParsedClasses ==
    { parse_class("", e, lines) :
          e \in ClassExams, lines \in UNION {[1..n -> OptionLines] : n \in OptionCounts} }

Catalogs ==
    { [k \in 1..Len(c) |-> [c[k] EXCEPT !.name = ToString(k)]] :
          c \in UNION {[1..n -> ParsedClasses] : n \in 0..MaxClasses} }

-----------------------------------------------------------------------------
(* The program: main() calls generate_all_valid_choices on the catalog *)

Init ==
    /\ ViewerAtStart
    /\ classes \in Catalogs
    /\ accepted \in Windows
    /\ valid_combinations = NotCalled
    /\ earlier_combinations = NotCalled
    /\ schedules = << >>
    /\ verdict = NotCalled
    /\ NoPredicateCall
    /\ exam1 = None
    /\ exam2 = None
    /\ answer = NotCalled

\* a call that goes on with the list the call before returned
Generate_accumulating ==
    /\ valid_combinations' =
          IF valid_combinations.kind = "return"
          THEN collect_valid_choices(classes, accepted,
                   product([c \in 1..Len(classes) |-> range(Len(classes[c].options))]),
                   1, valid_combinations.value)
          ELSE generate_all_valid_choices(classes, accepted)
    /\ earlier_combinations' = valid_combinations
    /\ UNCHANGED <<classes, accepted, schedules, verdict,
                   range1, range2, exam1, exam2, answer, idx, triggered_id>>

\* a call that takes the classes off the catalog as it goes
Generate_consuming ==
    /\ valid_combinations' = generate_all_valid_choices(classes, accepted)
    /\ earlier_combinations' = valid_combinations
    /\ classes' = << >>
    /\ UNCHANGED <<accepted, schedules, verdict,
                   range1, range2, exam1, exam2, answer, idx, triggered_id>>

\* one call of generate_all_valid_choices(classes, accepted)
Generate ==
    /\ valid_combinations' = generate_all_valid_choices(classes, accepted)
    /\ earlier_combinations' = valid_combinations
    /\ UNCHANGED <<classes, accepted, schedules, verdict,
                   range1, range2, exam1, exam2, answer, idx, triggered_id>>

Next == Generate

Spec == Init /\ [][Next]_vars

-----------------------------------------------------------------------------
(* The viewer: main() builds the pages of the combinations and serves them *)

\* the window main() parses from '9:00-16:30'
MainWindow == Hour_Range(Hour(9, 0), Hour(16, 30))

\* get_day_layout_div(choice) returns: str_from_exam reads exam.in_person of
\* every schedule active on some day, which raises on an absent exam
day_layout_renders(choice) ==
    \A k \in 1..Len(choice) :
        (\E i \in 0..(Day_Count - 1) : HasDay(choice[k].days, i)) =>
            choice[k].exam # None

\* main() has reached app.run with the callback registered: the call of
\* generate_all_valid_choices returned a list that is not empty and every
\* page was built
ViewerRunning ==
    /\ valid_combinations.kind = "return"
    /\ Len(valid_combinations.value) > 0
    /\ \A k \in 1..Len(valid_combinations.value) :
          day_layout_renders(Choice(classes, valid_combinations.value[k]))

\* the ids of the four buttons, and "" for the call Dash makes when the page
\* loads, triggered by no button
TriggeredIds == {"left-arrow-max", "left-arrow", "right-arrow", "right-arrow-max", ""}

\* update_schedule with a right-arrow that does not look at last_valid
update_schedule_unchecked(triggered, i, combinations) ==
    IF Len(combinations) = 0
    THEN i
    ELSE LET last_valid == Len(combinations) - 1
         IN  CASE triggered = "left-arrow-max"  -> 0
               [] triggered = "right-arrow-max" -> last_valid
               [] triggered = "left-arrow"      -> IF i > 0 THEN i - 1 ELSE i
               [] triggered = "right-arrow"     -> i + 1
               [] OTHER                         -> i

\* the index update_schedule returns, which Dash stores in current-index
update_schedule(triggered, i, combinations) ==
    IF Len(combinations) = 0
    THEN i
    ELSE LET last_valid == Len(combinations) - 1
         IN  CASE triggered = "left-arrow-max"  -> 0
               [] triggered = "right-arrow-max" -> last_valid
               [] triggered = "left-arrow"      -> IF i > 0 THEN i - 1 ELSE i
               [] triggered = "right-arrow"     -> IF i < last_valid THEN i + 1 ELSE i
               [] OTHER                         -> i

InitViewer ==
    /\ ViewerAtStart
    /\ classes \in Catalogs
    /\ accepted = MainWindow
    /\ valid_combinations = NotCalled
    /\ earlier_combinations = NotCalled
    /\ schedules = << >>
    /\ verdict = NotCalled
    /\ NoPredicateCall
    /\ exam1 = None
    /\ exam2 = None
    /\ answer = NotCalled

\* main() calls generate_all_valid_choices once
RunMain ==
    /\ valid_combinations = NotCalled
    /\ Generate

\* a click on one of the buttons, or the page load, runs the callback
UpdateSchedule ==
    /\ ViewerRunning
    /\ \E t \in TriggeredIds :
          /\ triggered_id' = t
          /\ idx' = update_schedule(t, idx, valid_combinations.value)
    /\ UNCHANGED <<classes, accepted, valid_combinations, earlier_combinations,
                   schedules, verdict, range1, range2, exam1, exam2, answer>>

SpecViewer == InitViewer /\ [][RunMain \/ UpdateSchedule]_vars

-----------------------------------------------------------------------------
(* Claims *)

Minutes(t) == t.hours * 60 + t.minutes

WellFormed(r) == Minutes(r.start) <= Minutes(r.end)

NonEmpty(r) == Minutes(r.start) < Minutes(r.end)

\* two ranges share some time: neither ends at or before the other starts
Overlap(r1, r2) ==
    ~ (Minutes(r1.end) <= Minutes(r2.start) \/ Minutes(r2.end) <= Minutes(r1.start))

Weekdays == 0..4

ShareDay(s1, s2) == \E d \in Weekdays : HasDay(s1.days, d) /\ HasDay(s2.days, d)

DayConflict(s1, s2) == ShareDay(s1, s2) /\ Overlap(s1.hours, s2.hours)

\* the exam conflict of the specification: an absent exam conflicts with nothing
ExamConflict(e1, e2) ==
    /\ e1 # None
    /\ e2 # None
    /\ e1.id = e2.id
    /\ Overlap(e1.hours, e2.hours)

FitsWindow(s, window) ==
    /\ Minutes(s.hours.start) >= Minutes(window.start)
    /\ Minutes(s.hours.end) <= Minutes(window.end)

Pairs(n) == {p \in (1..n) \X (1..n) : p[1] < p[2]}

\* conditions (a), (b) and (c) of a valid combination
Conforms(combination, window) ==
    /\ \A p \in Pairs(Len(combination)) :
          ~ DayConflict(combination[p[1]], combination[p[2]])
    /\ \A p \in Pairs(Len(combination)) :
          ~ ExamConflict(combination[p[1]].exam, combination[p[2]].exam)
    /\ \A k \in 1..Len(combination) : FitsWindow(combination[k], window)

\* the tuples of the Cartesian product: one option index per class
AllTuples(catalog) ==
    LET indices == UNION {1..Len(catalog[c].options) : c \in 1..Len(catalog)}
    IN  {t \in [1..Len(catalog) -> indices] :
            \A c \in 1..Len(catalog) : t[c] <= Len(catalog[c].options)}

Elements(seq) == {seq[k] : k \in 1..Len(seq)}

\* a comes before b in product order: at the first class where they differ, a
\* has the smaller option index
LexLess(a, b) ==
    \E p \in 1..Len(a) : a[p] < b[p] /\ \A q \in 1..(p - 1) : a[q] = b[q]

\* C1: generate_all_valid_choices returns exactly the tuples of the Cartesian
\* product that satisfy (a) no day/time conflict, (b) no exam conflict and
\* (c) every option inside the accepted window: none missing, none extra.
C1_ExactlyTheConformingTuples ==
    valid_combinations # NotCalled =>
        /\ valid_combinations.kind = "return"
        /\ Elements(valid_combinations.value) =
              {t \in AllTuples(classes) : Conforms(Choice(classes, t), accepted)}
        /\ Len(valid_combinations.value) = Cardinality(Elements(valid_combinations.value))

\* C2: for a combination of exactly one option, is_schedule_arrangement_valid
\* returns true if and only if the option passes is_schedule_valid against
\* the accepted window.
C2_SingleOptionWindow ==
    (verdict # NotCalled /\ Len(schedules) = 1) =>
        (verdict = Returned(TRUE) <=> is_schedule_valid(schedules[1], accepted))

\* C3: the exam-conflict predicate returns false and raises nothing when either
\* exam is absent; validating two or more options, one of them without exam,
\* ends with a boolean, and the absent exam does not invalidate the combination.
C3_AbsentExamNoConflict ==
    /\ (answer # NotCalled /\ (exam1 = None \/ exam2 = None)) =>
          answer = Returned(FALSE)
    /\ (/\ verdict # NotCalled
        /\ Len(schedules) >= 2
        /\ \E k \in 1..Len(schedules) : schedules[k].exam = None) =>
          /\ verdict.kind = "return"
          /\ Conforms(schedules, accepted) => verdict.value

\* C4: for a combination of two or more options that all fit the window and of
\* which no pair has an exam conflict, is_schedule_arrangement_valid returns
\* false if and only if two of the options share a weekday and overlap in time.
C4_DayConflictDecides ==
    (/\ verdict # NotCalled
     /\ Len(schedules) >= 2
     /\ \A k \in 1..Len(schedules) : FitsWindow(schedules[k], accepted)
     /\ \A p \in Pairs(Len(schedules)) :
           ~ ExamConflict(schedules[p[1]].exam, schedules[p[2]].exam)) =>
        (verdict = Returned(FALSE) <=>
            \E p \in Pairs(Len(schedules)) :
                DayConflict(schedules[p[1]], schedules[p[2]]))

\* C5: the returned list is in product order: of two returned combinations
\* the earlier one has the lexicographically smaller tuple of option indices,
\* the first class's index being the most significant; every returned
\* combination is a tuple of the product.
C5_ProductOrder ==
    valid_combinations.kind = "return" =>
        /\ Elements(valid_combinations.value) \subseteq AllTuples(classes)
        /\ \A p \in Pairs(Len(valid_combinations.value)) :
              LexLess(valid_combinations.value[p[1]], valid_combinations.value[p[2]])

\* a call returned combinations that differ in the first class's option, after
\* leaving out some tuple of the product
C5_Witness ==
    /\ valid_combinations.kind = "return"
    /\ Len(valid_combinations.value) >= 2
    /\ Len(valid_combinations.value) < Cardinality(AllTuples(classes))
    /\ valid_combinations.value[1][1] # valid_combinations.value[Len(valid_combinations.value)][1]
    /\ valid_combinations.value[1][2] > valid_combinations.value[Len(valid_combinations.value)][2]

\* C6: when some class has an empty option list, generate_all_valid_choices
\* returns the empty list, as a normal result, whatever the other classes
\* offer and whatever the window.
C6_EmptyClassEmptyResult ==
    (/\ valid_combinations # NotCalled
     /\ \E c \in 1..Len(classes) : classes[c].options = << >>) =>
        valid_combinations = Returned(<< >>)

\* a call on a catalog of a class without options and a class with two returned
C6_Witness ==
    /\ valid_combinations = Returned(<< >>)
    /\ \E c \in 1..Len(classes) : classes[c].options = << >>
    /\ \E c \in 1..Len(classes) : Len(classes[c].options) = 2

\* C7: for ranges a, b with start <= end, do_hours_overlap(a, b) is false
\* exactly when a ends at or before b starts or b ends at or before a starts,
\* comparing (hour, minute) as a time of day; back-to-back ranges do not overlap.
C7_OverlapIffNotDisjoint ==
    (answer # NotCalled /\ WellFormed(range1) /\ WellFormed(range2)) =>
        /\ answer.kind = "return"
        /\ (answer.value = FALSE) <=>
              (   Minutes(range1.end) <= Minutes(range2.start)
               \/ Minutes(range2.end) <= Minutes(range1.start))

\* a back-to-back pair of non-empty ranges has been compared and found disjoint
C7_Witness ==
    /\ answer = Returned(FALSE)
    /\ NonEmpty(range1)
    /\ range1.end = range2.start
    /\ NonEmpty(range2)

\* two schedules of the combination carry the same present exam (same
\* identifier, same time range), the range satisfying Admitted
IdenticalExams(Admitted(_)) ==
    \E p \in Pairs(Len(schedules)) :
        /\ schedules[p[1]].exam # None
        /\ schedules[p[1]].exam = schedules[p[2]].exam
        /\ Admitted(schedules[p[1]].exam.hours)

C10_CatalogUnchanged == [][classes' = classes /\ accepted' = accepted]_vars

\* a call on a catalog of two classes returned a combination
C10_Witness ==
    /\ valid_combinations.kind = "return"
    /\ Len(valid_combinations.value) >= 1
    /\ Len(classes) >= 2

\* C12: on a catalog of zero classes generate_all_valid_choices returns a list
\* of exactly one element, the empty combination, whatever the window: no
\* classes is reported as one valid schedule, not as no schedule.
C12_NoClassesOneEmptyCombination ==
    (valid_combinations # NotCalled /\ classes = << >>) =>
        valid_combinations = Returned(<< << >> >>)

\* a call on the catalog of no classes returned
C12_Witness ==
    /\ classes = << >>
    /\ valid_combinations.kind = "return"
    /\ Len(valid_combinations.value) = 1

\* the displayed page exists: idx is an index of the list of combinations
CursorInBounds ==
    ViewerRunning => idx \in 0..(Len(valid_combinations.value) - 1)

\* what a navigation step does at the ends of the list
NavigationStep ==
    ViewerRunning =>
        LET last_valid == Len(valid_combinations.value) - 1
        IN  /\ triggered_id' = "left-arrow-max" => idx' = 0
            /\ triggered_id' = "right-arrow-max" => idx' = last_valid
            /\ (triggered_id' = "left-arrow" /\ idx = 0) => idx' = 0
            /\ (triggered_id' = "right-arrow" /\ idx = last_valid) => idx' = last_valid

\* C11: with a result list of n > 0 combinations and the cursor starting at
\* 0, after any sequence of the navigation events the index satisfies
\* 0 <= idx <= n - 1: previous at 0 and next at n - 1 leave it unchanged,
\* first sets it to 0 and last to n - 1, so the page shown always exists.
C11_CursorStaysInBounds == []CursorInBounds /\ [][NavigationStep]_vars

\* the cursor was moved to the last of at least two combinations by the
\* right arrow
C11_Witness ==
    /\ ViewerRunning
    /\ Len(valid_combinations.value) >= 2
    /\ idx = Len(valid_combinations.value) - 1
    /\ triggered_id = "right-arrow"

====
